---- MODULE Spec2Model ----
(***************************************************************************)
(* A model of the file-discovery and normalisation layer of                *)
(* ollama_folderAnalyzer: find_recent_files, analyze_file_types, the       *)
(* Obsidian annotation and read_file_content, and of the run of the local  *)
(* front-end: analyze_file_changes, generate_report and main; and of main  *)
(* of the agent front-ends with the tool save_report.                      *)
(*                                                                         *)
(* Text is a sequence of Unicode code points; a file is a sequence of      *)
(* bytes. Time is counted in ticks of half a day, so that a file time can  *)
(* fall between two whole days while timedelta(days) stays a whole number  *)
(* of days.                                                                *)
(***************************************************************************)
EXTENDS Integers, Sequences, FiniteSets, TLC

\* Bounds of the model.
NFiles == 3
MaxMtime == 3
MaxDays == 2
MaxManifest == 3
MaxSize == 2
MaxText == 5
MaxBytes == 3
MaxChars == 3
MaxFound == 12
MaxToolCalls == 2

VARIABLES
    \* ---- the filesystem under the scanned root, and the clock
    root,           \* "missing" | "file" | "dir": what folder_path names
    fs,             \* entry (in rglob order) -> [kind, mtime, size]
    touched,        \* entries another process changed while the scan ran
    versions,       \* entry -> the <<mtime, size>> states the file has had
    raced,          \* whether another process has interfered with this scan
    clock,          \* datetime.now(), in ticks
    \* ---- find_recent_files
    days,           \* the argument `days`
    call_time,      \* the clock when find_recent_files was called
    cutoff_date,    \* local cutoff_date
    spc,            \* position in find_recent_files
    idx,            \* the entry the for loop is at
    modified_time,  \* local modified_time
    recent_files,   \* local recent_files, returned when spc = "returned"
    \* ---- analyze_file_types
    json_ok,        \* whether files_json is well-formed JSON
    files,          \* json.loads(files_json): records [path, size]
    tpc,            \* position in analyze_file_types
    tpos,           \* the record the for loop is at
    type_stats,     \* local type_stats: extension key -> [count, total_size]
    total_size,     \* local total_size
    total_files,    \* result["total_files"]
    \* ---- _process_obsidian_markdown
    ann_in,         \* the argument content
    apc,            \* "fresh" | "ruled" | "ordered" | "once" | "twice"
    ann_rule,       \* the one substitution applied, when apc = "ruled"
    ann_order,      \* the order the three rules ran in, when apc = "ordered"
    ann_out,        \* the text after one rule, or after one call
    ann_out2,       \* the text after a second call on ann_out
    \* ---- read_file_content
    rd_path,        \* the argument file_path
    rd_bytes,       \* the bytes of the file
    written,        \* the encoding the file's writer encoded its text with
    max_chars,      \* the argument max_chars
    readable,       \* whether open() and read() of the file succeed
    io_failed,      \* whether an open() or read() of this call raised OSError
    rpc,            \* "call" | "fallback" | "returned"
    enc_i,          \* the index in encodings the fallback loop is at
    attempts,       \* the encodings open() was called with, in order
    annotated,      \* whether the three re.sub calls ran on the content
    rd_kind,        \* which return statement returned
    rd_enc,         \* the encoding that decoded the returned content
    rd_result,      \* the returned string
    \* ---- analyze_file_changes and OllamaClient.generate
    ch_files,       \* the argument files
    ch_pc,          \* "call" | "loop" | "generate" | "returned"
    ch_i,           \* the record of files[:10] the for loop is at
    file_summary,   \* local file_summary
    failed_reads,   \* the positions whose read_file_content could not read
    prompt,         \* the file part of the prompt handed to generate
    requests,       \* the number of requests.post calls made
    generate_failed,\* whether a call of generate ended in its except branch
    analysis,       \* the returned string
    \* ---- generate_report and main
    output,         \* whether args.output names a file
    pl_pc,          \* position in main and generate_report
    stages,         \* the stages of the run so far, in order
    report,         \* the value generate_report returned
    printed,        \* what main has printed, in order
    saved,          \* whether the report was written to args.output
    \* ---- main of the agent front-ends, the agent run and save_report
    ag_key,         \* whether the API configuration is in the environment
    ag_output,      \* whether args.output names a file
    ag_pc,          \* "start" | "running" | "done" | "failed"
    save_calls,     \* the calls of save_report: [path, result], in order
    ag_files,       \* the paths save_report has written
    ag_printed      \* what main has printed, in order

scanVars == <<root, fs, touched, versions, raced, clock, days, call_time, cutoff_date,
              spc, idx, modified_time, recent_files>>

typeVars == <<json_ok, files, tpc, tpos, type_stats, total_size, total_files>>

annVars == <<ann_in, apc, ann_rule, ann_order, ann_out, ann_out2>>

readVars == <<rd_path, rd_bytes, written, max_chars, readable, io_failed, rpc,
              enc_i, attempts, annotated, rd_kind, rd_enc, rd_result>>

changeVars == <<ch_files, ch_pc, ch_i, file_summary, failed_reads, prompt,
                requests, generate_failed, analysis>>

mainVars == <<output, pl_pc, stages, report, printed, saved>>

pipeVars == <<changeVars, mainVars>>

agentVars == <<ag_key, ag_output, ag_pc, save_calls, ag_files, ag_printed>>

vars == <<scanVars, typeVars, annVars, readVars, pipeVars, agentVars>>

\* What each operation leaves alone: the state of the other operations.
notScan == <<typeVars, annVars, readVars, pipeVars, agentVars>>

notTypes == <<scanVars, annVars, readVars, pipeVars, agentVars>>

notAnn == <<scanVars, typeVars, readVars, pipeVars, agentVars>>

notRead == <<scanVars, typeVars, annVars, pipeVars, agentVars>>

\* The pipeline calls find_recent_files, so only the other three are at rest.
notPipe == <<typeVars, annVars, readVars, agentVars>>

notAgent == <<scanVars, typeVars, annVars, readVars, pipeVars>>

(***************************************************************************)
(* Helpers on sequences.                                                   *)
(***************************************************************************)
Reverse(s) == [i \in 1..Len(s) |-> s[Len(s) + 1 - i]]

Min(a, b) == IF a < b THEN a ELSE b

\* Python's str comparison: lexicographic on code points, a proper prefix first.
StrLess(a, b) ==
    \E k \in 1..(Min(Len(a), Len(b)) + 1) :
        /\ \A i \in 1..(k - 1) : a[i] = b[i]
        /\ \/ k > Len(a) /\ k <= Len(b)
           \/ k <= Len(a) /\ k <= Len(b) /\ a[k] < b[k]

(***************************************************************************)
(* datetime: timedelta(days=d), datetime.isoformat().                      *)
(*                                                                         *)
(* isoformat writes the date and time of day in fixed-width, zero-padded   *)
(* fields and appends the fraction (".ffffff") only when it is not zero.   *)
(* Here the fixed-width part is the two-digit day number and the fraction  *)
(* is the half day.                                                        *)
(***************************************************************************)
timedelta(d) == 2 * d

Digit(n) == 48 + n

isoformat(t) ==
    LET whole == 8 + (t \div 2)
        head  == <<Digit(whole \div 10), Digit(whole % 10)>>
    IN  IF t % 2 = 0 THEN head ELSE head \o <<46, 53>>

(***************************************************************************)
(* list.sort(key=lambda x: x["modified"], reverse=True).                   *)
(* CPython sorts stably; with reverse=True it reverses the list, sorts it  *)
(* ascending and reverses it again, which keeps equal keys in their        *)
(* original order.                                                         *)
(***************************************************************************)
\* t is sorted ascending: x goes after every element whose key is <= its key.
InsertByModified(t, x) ==
    LET later == {i \in 1..Len(t) : StrLess(x.modified, t[i].modified)}
        p     == IF later = {} THEN Len(t) + 1
                 ELSE CHOOSE i \in later : \A j \in later : i <= j
    IN  SubSeq(t, 1, p - 1) \o <<x>> \o SubSeq(t, p, Len(t))

RECURSIVE SortAscending(_)
SortAscending(s) ==
    IF s = <<>> THEN <<>>
    ELSE InsertByModified(SortAscending(SubSeq(s, 1, Len(s) - 1)), s[Len(s)])

SortThenReverse(s) == Reverse(SortAscending(s))

SortByModifiedDesc(s) == Reverse(SortAscending(Reverse(s)))

(***************************************************************************)
(* find_recent_files.                                                      *)
(***************************************************************************)
\* folder.rglob("*"): the entries under the root; none under a missing root or
\* under a root that is a regular file.
Walk == IF root = "dir" THEN 1..NFiles ELSE {}

IsRecentOrAtCutoff(mt, cutoff) == mt >= cutoff

IsRecent(mt, cutoff) == mt > cutoff

FileEntry(k, m, s) == [kind |-> k, mtime |-> m, size |-> s]

ScanInit ==
    /\ root \in {"missing", "file", "dir"}
    /\ fs \in [1..NFiles ->
                 {FileEntry("dir", 0, 0), FileEntry("denied", 0, 0)}
                 \cup {FileEntry("file", m, 1) : m \in 0..MaxMtime}]
    /\ touched = {}
    /\ versions = [f \in 1..NFiles |-> {<<fs[f].mtime, fs[f].size>>}]
    /\ raced = FALSE
    /\ clock = MaxMtime + 1
    /\ days \in 0..MaxDays
    /\ call_time = 0
    /\ cutoff_date = 0
    /\ spc = "call"
    /\ idx = 0
    /\ modified_time = 0
    /\ recent_files = <<>>

\* The end of one loop iteration: the next entry, or, after the last one, the
\* sort and the return.
Continue(rf) ==
    IF idx + 1 \in Walk
    THEN /\ idx' = idx + 1
         /\ spc' = "is_file"
         /\ recent_files' = rf
    ELSE /\ idx' = idx
         /\ spc' = "returned"
         /\ recent_files' = SortByModifiedDesc(rf)

\* Lines 37-42: the existence check, the cutoff, the empty list.
ScanCall ==
    /\ spc = "call"
    /\ call_time' = clock
    /\ IF root = "missing"
       THEN /\ spc' = "raised"
            /\ UNCHANGED <<cutoff_date, idx, recent_files>>
       ELSE /\ cutoff_date' = clock - timedelta(days)
            /\ Continue(<<>>)
    /\ UNCHANGED <<root, fs, touched, versions, raced, clock, days, modified_time>>
    /\ UNCHANGED notScan

\* Line 45: file_path.is_file(), outside the try. Path.is_file returns False for
\* a path that is gone. For EACCES it raises ("other errors (such as permission
\* errors) are propagated"); an interpreter whose is_file swallows every OSError
\* returns False instead, so both outcomes are possible.
ScanIsFile ==
    /\ spc = "is_file"
    /\ clock' = clock + 1
    /\ CASE fs[idx].kind = "file" ->
              /\ spc' = "stat_mtime"
              /\ UNCHANGED <<idx, recent_files>>
         [] fs[idx].kind = "denied" ->
              \/ /\ spc' = "raised"
                 /\ UNCHANGED <<idx, recent_files>>
              \/ Continue(recent_files)
         [] OTHER -> Continue(recent_files)
    /\ UNCHANGED <<root, fs, touched, versions, raced, days, call_time,
                   cutoff_date, modified_time>>
    /\ UNCHANGED notScan

\* Lines 46-48: the first stat() and the comparison, inside the try.
ScanStatMtime ==
    /\ spc = "stat_mtime"
    /\ IF fs[idx].kind = "file"
       THEN /\ modified_time' = fs[idx].mtime
            /\ IF IsRecent(fs[idx].mtime, cutoff_date)
               THEN /\ spc' = "stat_size"
                    /\ UNCHANGED <<idx, recent_files>>
               ELSE Continue(recent_files)
       ELSE /\ Continue(recent_files)      \* except Exception: continue
            /\ UNCHANGED modified_time
    /\ UNCHANGED <<root, fs, touched, versions, raced, clock, days, call_time,
                   cutoff_date>>
    /\ UNCHANGED notScan

\* Lines 49-53: the record, with the second stat() for the size.
ScanStatSize ==
    /\ spc = "stat_size"
    /\ IF fs[idx].kind = "file"
       THEN Continue(Append(recent_files,
                [path |-> idx, modified |-> isoformat(modified_time),
                 size |-> fs[idx].size]))
       ELSE Continue(recent_files)         \* except Exception: continue
    /\ UNCHANGED <<root, fs, touched, versions, raced, clock, days, call_time,
                   cutoff_date, modified_time>>
    /\ UNCHANGED notScan

\* Another process, while the loop is at a regular file: at most once per scan.
Scanning == spc \in {"is_file", "stat_mtime", "stat_size"}

OtherDeletes ==
    /\ Scanning /\ ~raced /\ fs[idx].kind = "file"
    /\ fs' = [fs EXCEPT ![idx].kind = "gone"]
    /\ touched' = touched \cup {idx}
    /\ raced' = TRUE
    /\ UNCHANGED <<root, versions, clock, days, call_time, cutoff_date, spc, idx,
                   modified_time, recent_files>>
    /\ UNCHANGED notScan

OtherRevokes ==
    /\ Scanning /\ ~raced /\ fs[idx].kind = "file"
    /\ fs' = [fs EXCEPT ![idx].kind = "denied"]
    /\ touched' = touched \cup {idx}
    /\ raced' = TRUE
    /\ UNCHANGED <<root, versions, clock, days, call_time, cutoff_date, spc, idx,
                   modified_time, recent_files>>
    /\ UNCHANGED notScan

OtherWrites ==
    /\ Scanning /\ ~raced /\ fs[idx].kind = "file"
    /\ fs' = [fs EXCEPT ![idx].mtime = clock, ![idx].size = 2]
    /\ touched' = touched \cup {idx}
    /\ versions' = [versions EXCEPT ![idx] = @ \cup {<<clock, 2>>}]
    /\ raced' = TRUE
    /\ UNCHANGED <<root, clock, days, call_time, cutoff_date, spc, idx,
                   modified_time, recent_files>>
    /\ UNCHANGED notScan

ScanNext ==
    \/ ScanCall
    \/ ScanIsFile
    \/ ScanStatMtime
    \/ ScanStatSize
    \/ OtherDeletes
    \/ OtherRevokes
    \/ OtherWrites

(***************************************************************************)
(* pathlib: Path(p).suffix, and str.lower().                               *)
(***************************************************************************)
\* The last index of code point c in s, 0 when there is none.
RFind(s, c) ==
    LET hits == {i \in 1..Len(s) : s[i] = c}
    IN  IF hits = {} THEN 0 ELSE CHOOSE i \in hits : \A j \in hits : j <= i

\* PurePath.name: what follows the last "/".
PathName(p) == SubSeq(p, RFind(p, 47) + 1, Len(p))

\* PurePath.suffix: from the last "." of the name, unless that "." is the first
\* or the last character of the name.
Suffix(p) ==
    LET name == PathName(p)
        i    == RFind(name, 46)
    IN  IF 1 < i /\ i < Len(name) THEN SubSeq(name, i, Len(name)) ELSE <<>>

Lower(s) == [i \in 1..Len(s) |-> IF s[i] \in 65..90 THEN s[i] + 32 ELSE s[i]]

\* ".md"
DotMd == <<46, 109, 100>>

(***************************************************************************)
(* analyze_file_types.                                                     *)
(***************************************************************************)
\* The paths of the manifests: a.md, b.MD, .md, x.d/e
TypePaths ==
    { <<97, 46, 109, 100>>, <<98, 46, 77, 68>>, <<46, 109, 100>>,
      <<120, 46, 100, 47, 101>> }

\* "拡張子なし"
NoExtension == <<25313, 24373, 23376, 12394, 12375>>

\* ext = file_path.suffix.lower() or "拡張子なし"
ExtKey(p) == IF Lower(Suffix(p)) = <<>> THEN NoExtension ELSE Lower(Suffix(p))

TallyOverwrite(ts, ext, size) ==
    [e \in DOMAIN ts \cup {ext} |->
        IF e = ext THEN [count |-> 1, total_size |-> size] ELSE ts[e]]

\* Lines 133-137: the bucket of ext, created at zero when new, then increased.
Tally(ts, ext, size) ==
    [e \in DOMAIN ts \cup {ext} |->
        IF e = ext
        THEN [count      |-> (IF ext \in DOMAIN ts THEN ts[ext].count ELSE 0) + 1,
              total_size |-> (IF ext \in DOMAIN ts THEN ts[ext].total_size ELSE 0)
                             + size]
        ELSE ts[e]]

Manifests ==
    UNION {[1..n -> [path : TypePaths, size : 0..MaxSize]] : n \in 0..MaxManifest}

TypesIdle ==
    /\ json_ok = TRUE
    /\ files = <<>>
    /\ tpc = "idle"
    /\ tpos = 0
    /\ type_stats = <<>>
    /\ total_size = 0
    /\ total_files = 0

TypesInit ==
    /\ \/ json_ok = TRUE /\ files \in Manifests
       \/ json_ok = FALSE /\ files = <<>>
    /\ tpc = "call"
    /\ tpos = 0
    /\ type_stats = <<>>
    /\ total_size = 0
    /\ total_files = 0

\* Lines 121-127 and, for a manifest with no record, lines 140-145.
TypesCall ==
    /\ tpc = "call"
    /\ IF ~json_ok
       THEN tpc' = "error"                  \* {"error": "Invalid JSON format"}
       ELSE tpc' = IF files = <<>> THEN "returned" ELSE "loop"
    /\ tpos' = 1
    /\ type_stats' = <<>>
    /\ total_size' = 0
    /\ total_files' = 0
    /\ UNCHANGED <<json_ok, files>>
    /\ UNCHANGED notTypes

\* Lines 129-138: one iteration; after the last one, lines 140-145.
TypesStep ==
    /\ tpc = "loop"
    /\ type_stats' = Tally(type_stats, ExtKey(files[tpos].path), files[tpos].size)
    /\ total_size' = total_size + files[tpos].size
    /\ tpos' = tpos + 1
    /\ IF tpos = Len(files)
       THEN tpc' = "returned" /\ total_files' = Len(files)
       ELSE UNCHANGED <<tpc, total_files>>
    /\ UNCHANGED <<json_ok, files>>
    /\ UNCHANGED notTypes

TypesNext ==
    \/ TypesCall
    \/ TypesStep

(***************************************************************************)
(* _process_obsidian_markdown: three re.sub calls. re.sub replaces the     *)
(* leftmost non-overlapping matches, scanning from left to right.          *)
(***************************************************************************)
\* "（Obsidianリンク）", "（Obsidianタグ）", "（ブロック参照）"
LinkMarker ==
    <<65288, 79, 98, 115, 105, 100, 105, 97, 110, 12522, 12531, 12463, 65289>>

TagMarker ==
    <<65288, 79, 98, 115, 105, 100, 105, 97, 110, 12479, 12464, 65289>>

BlockMarker == <<65288, 12502, 12525, 12483, 12463, 21442, 29031, 65289>>

\* [a-zA-Z0-9]
Alnum == (97..122) \cup (65..90) \cup (48..57)

TagClassWithCaret == Alnum \cup {95, 45, 47, 94}

\* [a-zA-Z0-9_\-/]
TagClass == Alnum \cup {95, 45, 47}

\* [a-zA-Z0-9\-]
BlockClass == Alnum \cup {45}

\* The end of the longest run of characters of class that starts at i (+ is
\* greedy); i - 1 when s[i] is not in class.
RunEnd(s, i, class) ==
    LET stops == {j \in i..Len(s) : s[j] \notin class}
    IN  IF stops = {} THEN Len(s)
        ELSE (CHOOSE j \in stops : \A k \in stops : j <= k) - 1

\* \[\[([^\]]+)\]\] at i: the index of the last character of the match, or 0.
\* [^\]]+ runs to the first "]", must not be empty, and "]]" must follow.
LinkMatchEnd(s, i) ==
    IF i + 1 <= Len(s) /\ s[i] = 91 /\ s[i + 1] = 91
    THEN LET j == RunEnd(s, i + 2, (0..65535) \ {93}) + 1
         IN  IF j >= i + 3 /\ j + 1 <= Len(s) /\ s[j] = 93 /\ s[j + 1] = 93
             THEN j + 1 ELSE 0
    ELSE 0

\* #([a-zA-Z0-9_\-/]+) at i, and \^([a-zA-Z0-9\-]+) at i.
RunMatchEnd(s, i, lead, class) ==
    IF i + 1 <= Len(s) /\ s[i] = lead /\ s[i + 1] \in class
    THEN RunEnd(s, i + 1, class) ELSE 0

\* The templates, given group 1.
\* r'[[\1]]（Obsidianリンク）'
LinkReplacement(g) == <<91, 91>> \o g \o <<93, 93>> \o LinkMarker

\* r'#\1（Obsidianタグ）'
TagReplacement(g) == <<35>> \o g \o TagMarker

\* r'^\\1（ブロック参照）': in the template "\\" is a literal backslash, so the
\* replacement is "^", a backslash and the digit 1; group 1 is not used.
BlockReplacement(g) == <<94, 92, 49>> \o BlockMarker

RECURSIVE SubLink(_, _)
SubLink(s, i) ==
    IF i > Len(s) THEN <<>>
    ELSE LET e == LinkMatchEnd(s, i)
         IN  IF e = 0 THEN <<s[i]>> \o SubLink(s, i + 1)
             ELSE LinkReplacement(SubSeq(s, i + 2, e - 2)) \o SubLink(s, e + 1)

RECURSIVE SubTag(_, _)
SubTag(s, i) ==
    IF i > Len(s) THEN <<>>
    ELSE LET e == RunMatchEnd(s, i, 35, TagClass)
         IN  IF e = 0 THEN <<s[i]>> \o SubTag(s, i + 1)
             ELSE TagReplacement(SubSeq(s, i + 1, e)) \o SubTag(s, e + 1)

RECURSIVE SubBlock(_, _)
SubBlock(s, i) ==
    IF i > Len(s) THEN <<>>
    ELSE LET e == RunMatchEnd(s, i, 94, BlockClass)
         IN  IF e = 0 THEN <<s[i]>> \o SubBlock(s, i + 1)
             ELSE BlockReplacement(SubSeq(s, i + 1, e)) \o SubBlock(s, e + 1)

AnnotateLinks(s) == SubLink(s, 1)

AnnotateTags(s) == SubTag(s, 1)

AnnotateBlocks(s) == SubBlock(s, 1)

ApplyRule(r, s) ==
    CASE r = "link"  -> AnnotateLinks(s)
      [] r = "tag"   -> AnnotateTags(s)
      [] r = "block" -> AnnotateBlocks(s)

\* Lines 96, 99, 102 in this order.
ProcessObsidianMarkdown(s) == AnnotateBlocks(AnnotateTags(AnnotateLinks(s)))

\* The characters of the texts: [ ] # ^ a
TextChars == {91, 93, 35, 94, 97}

Texts == UNION {[1..n -> TextChars] : n \in 0..MaxText}

AnnIdle ==
    /\ ann_in = <<>>
    /\ apc = "idle"
    /\ ann_rule = "none"
    /\ ann_order = <<>>
    /\ ann_out = <<>>
    /\ ann_out2 = <<>>

AnnInit ==
    /\ ann_in \in Texts
    /\ apc = "fresh"
    /\ ann_rule = "none"
    /\ ann_order = <<>>
    /\ ann_out = <<>>
    /\ ann_out2 = <<>>

\* One of the three re.sub calls, on its own.
AnnSubstitute ==
    /\ apc = "fresh"
    /\ \E r \in {"link", "tag", "block"} :
          /\ ann_rule' = r
          /\ ann_out' = ApplyRule(r, ann_in)
    /\ apc' = "ruled"
    /\ UNCHANGED <<ann_in, ann_order, ann_out2>>
    /\ UNCHANGED notAnn

\* The three re.sub calls of lines 96, 99 and 102, in any order.
Orders ==
    {o \in [1..3 -> {"link", "tag", "block"}] : \A i, j \in 1..3 : o[i] = o[j] => i = j}

AnnInOrder ==
    /\ apc = "fresh"
    /\ \E o \in Orders :
          /\ ann_order' = o
          /\ ann_out' = ApplyRule(o[3], ApplyRule(o[2], ApplyRule(o[1], ann_in)))
    /\ apc' = "ordered"
    /\ UNCHANGED <<ann_in, ann_rule, ann_out2>>
    /\ UNCHANGED notAnn

\* _process_obsidian_markdown(content).
AnnProcess ==
    /\ apc = "fresh"
    /\ ann_out' = ProcessObsidianMarkdown(ann_in)
    /\ apc' = "once"
    /\ UNCHANGED <<ann_in, ann_rule, ann_order, ann_out2>>
    /\ UNCHANGED notAnn

\* _process_obsidian_markdown on its own output.
AnnProcessAgain ==
    /\ apc = "once"
    /\ ann_out2' = ProcessObsidianMarkdown(ann_out)
    /\ apc' = "twice"
    /\ UNCHANGED <<ann_in, ann_rule, ann_order, ann_out>>
    /\ UNCHANGED notAnn

AnnNext ==
    \/ AnnSubstitute
    \/ AnnInOrder
    \/ AnnProcess
    \/ AnnProcessAgain

(***************************************************************************)
(* The codecs open(file_path, 'r', encoding=...) decodes with, errors      *)
(* strict. A decoder returns [ok, text]: ok is FALSE for UnicodeDecodeError.*)
(***************************************************************************)
Decoded(t) == [ok |-> TRUE, text |-> t]

DecodeError == [ok |-> FALSE, text |-> <<>>]

\* One decoded character c followed by the decoding of the rest.
Then(c, rest) == IF rest.ok THEN Decoded(<<c>> \o rest.text) ELSE DecodeError

\* A UTF-8 continuation byte.
Cont(b) == b \in 128..191

\* utf-8: one to four bytes per character, no overlong form, no surrogate.
RECURSIVE Utf8From(_, _)
Utf8From(b, i) ==
    IF i > Len(b) THEN Decoded(<<>>)
    ELSE LET c == b[i]
             n == Len(b) - i
         IN  CASE c < 128 -> Then(c, Utf8From(b, i + 1))
               [] c \in 194..223 /\ n >= 1 /\ Cont(b[i + 1]) ->
                    Then((c - 192) * 64 + (b[i + 1] - 128), Utf8From(b, i + 2))
               [] c \in 224..239 /\ n >= 2 /\ Cont(b[i + 1]) /\ Cont(b[i + 2])
                  /\ (c = 224 => b[i + 1] >= 160) /\ (c = 237 => b[i + 1] <= 159) ->
                    Then((c - 224) * 4096 + (b[i + 1] - 128) * 64 + (b[i + 2] - 128),
                         Utf8From(b, i + 3))
               [] c \in 240..244 /\ n >= 3 /\ Cont(b[i + 1]) /\ Cont(b[i + 2])
                  /\ Cont(b[i + 3])
                  /\ (c = 240 => b[i + 1] >= 144) /\ (c = 244 => b[i + 1] <= 143) ->
                    Then((c - 240) * 262144 + (b[i + 1] - 128) * 4096
                            + (b[i + 2] - 128) * 64 + (b[i + 3] - 128),
                         Utf8From(b, i + 4))
               [] OTHER -> DecodeError

\* The double-byte characters of shift_jis and cp932 that the files of the model
\* can hold (lead byte E9): <<lead, trail>> -> code point.
DoubleByte ==
    (<<233, 94>> :> 39243) @@ (<<233, 97>> :> 39244) @@ (<<233, 128>> :> 39486)
    @@ (<<233, 169>> :> 39721) @@ (<<233, 195>> :> 39887) @@ (<<233, 233>> :> 40172)

\* shift_jis (strict = TRUE) and cp932 (strict = FALSE): ASCII, the half-width
\* katakana A1-DF, and lead byte plus trail byte. cp932 also decodes 80, A0 and
\* FD-FF as single bytes.
RECURSIVE SjisFrom(_, _, _)
SjisFrom(b, i, strict) ==
    IF i > Len(b) THEN Decoded(<<>>)
    ELSE LET c == b[i]
         IN  CASE c < 128 -> Then(c, SjisFrom(b, i + 1, strict))
               [] c \in 161..223 ->
                    Then(65377 + (c - 161), SjisFrom(b, i + 1, strict))
               [] ~strict /\ c = 128 -> Then(128, SjisFrom(b, i + 1, strict))
               [] ~strict /\ c = 160 -> Then(63728, SjisFrom(b, i + 1, strict))
               [] ~strict /\ c \in 253..255 ->
                    Then(63729 + (c - 253), SjisFrom(b, i + 1, strict))
               [] i < Len(b) /\ <<c, b[i + 1]>> \in DOMAIN DoubleByte ->
                    Then(DoubleByte[<<c, b[i + 1]>>], SjisFrom(b, i + 2, strict))
               [] OTHER -> DecodeError

\* utf-16 without a byte order mark: little-endian code units; a file of odd
\* length is truncated data. (The bytes of the model hold no BOM and no
\* surrogate.)
RECURSIVE Utf16From(_, _)
Utf16From(b, i) ==
    IF i > Len(b) THEN Decoded(<<>>)
    ELSE IF i = Len(b) THEN DecodeError
    ELSE Then(b[i] + 256 * b[i + 1], Utf16From(b, i + 2))

Decode(enc, b) ==
    CASE enc = "utf-8"     -> Utf8From(b, 1)
      [] enc = "shift_jis" -> SjisFrom(b, 1, TRUE)
      [] enc = "cp932"     -> SjisFrom(b, 1, FALSE)
      [] enc = "latin1"    -> Decoded(b)
      [] enc = "utf-16"    -> Utf16From(b, 1)

(***************************************************************************)
(* read_file_content(file_path, max_chars).                                *)
(***************************************************************************)
EncodingsLatinFirst == <<"latin1", "shift_jis", "cp932", "utf-16">>

EncodingsUtf16BeforeLatin == <<"shift_jis", "cp932", "utf-16", "latin1">>

\* Line 93.
Encodings == <<"shift_jis", "cp932", "latin1", "utf-16">>

\* The name of an encoding as text, for the f-string of line 100.
EncodingName(enc) ==
    CASE enc = "utf-8"     -> <<117, 116, 102, 45, 56>>
      [] enc = "shift_jis" -> <<115, 104, 105, 102, 116, 95, 106, 105, 115>>
      [] enc = "cp932"     -> <<99, 112, 57, 51, 50>>
      [] enc = "latin1"    -> <<108, 97, 116, 105, 110, 49>>
      [] enc = "utf-16"    -> <<117, 116, 102, 45, 49, 54>>

\* "..."
Ellipsis == <<46, 46, 46>>

TruncateUncut(content, n) ==
    IF Len(content) > n THEN content \o Ellipsis ELSE content

\* Lines 76-77 and 98-99: content[:max_chars] + "..." when it is longer.
Truncate(content, n) ==
    IF Len(content) > n THEN SubSeq(content, 1, n) \o Ellipsis ELSE content

\* f"[{encoding}エンコーディング] {content}"
Tagged(enc, content) ==
    <<91>> \o EncodingName(enc)
       \o <<12456, 12531, 12467, 12540, 12487, 12451, 12531, 12464, 93, 32>>
       \o content

\* f"[読み込み不可能なエンコーディング: {file_path}]"
Undecodable(path) ==
    <<91, 35501, 12415, 36796, 12415, 19981, 21487, 33021, 12394, 12456, 12531,
      12467, 12540, 12487, 12451, 12531, 12464, 58, 32>> \o path \o <<93>>

\* f"[読み込みエラー: {str(e)}]", e the FileNotFoundError of open():
\* "[Errno 2] No such file or directory: '<path>'".
ReadError(path) ==
    <<91, 35501, 12415, 36796, 12415, 12456, 12521, 12540, 58, 32>>
       \o <<91, 69, 114, 114, 110, 111, 32, 50, 93, 32, 78, 111, 32, 115, 117, 99,
            104, 32, 102, 105, 108, 101, 32, 111, 114, 32, 100, 105, 114, 101, 99,
            116, 111, 114, 121, 58, 32, 39>>
       \o path \o <<39, 93>>

\* Line 80: file_ext == '.md', file_ext being Path(file_path).suffix.lower().
IsMarkdown(path) == Lower(Suffix(path)) = DotMd

\* The paths read: a.md, b.MD, x.d/e
ReadPaths == { <<97, 46, 109, 100>>, <<98, 46, 77, 68>>, <<120, 46, 100, 47, 101>> }

\* The bytes of the files: "a", "#", "^", 80, A9, C3, E9.
ByteValues == {97, 35, 94, 128, 169, 195, 233}

ReadIdle ==
    /\ rd_path = <<>>
    /\ rd_bytes = <<>>
    /\ written = "utf-8"
    /\ max_chars = 1
    /\ readable = FALSE
    /\ io_failed = FALSE
    /\ rpc = "idle"
    /\ enc_i = 0
    /\ attempts = <<>>
    /\ annotated = FALSE
    /\ rd_kind = "none"
    /\ rd_enc = "none"
    /\ rd_result = <<>>

\* A file is the encoding of some text in the encoding its writer chose: its
\* bytes decode in that encoding.
ReadInit ==
    /\ rd_path \in ReadPaths
    /\ rd_bytes \in UNION {[1..n -> ByteValues] : n \in 0..MaxBytes}
    /\ written \in {e \in {"utf-8", "shift_jis", "cp932", "latin1"} :
                       Decode(e, rd_bytes).ok}
    /\ max_chars \in 1..MaxChars
    /\ readable \in BOOLEAN
    /\ io_failed = FALSE
    /\ rpc = "call"
    /\ enc_i = 0
    /\ attempts = <<>>
    /\ annotated = FALSE
    /\ rd_kind = "none"
    /\ rd_enc = "none"
    /\ rd_result = <<>>

\* Lines 71-90 and 104-105: the UTF-8 read. Any exception of open() or read()
\* other than UnicodeDecodeError returns the read-error string.
ReadUtf8 ==
    /\ rpc = "call"
    /\ attempts' = <<"utf-8">>
    /\ io_failed' = ~readable
    /\ IF ~readable
       THEN /\ rpc' = "returned"
            /\ rd_kind' = "error"
            /\ rd_result' = ReadError(rd_path)
            /\ UNCHANGED <<enc_i, annotated, rd_enc>>
       ELSE LET d == Decode("utf-8", rd_bytes)
                content == Truncate(d.text, max_chars)
            IN  IF d.ok
                THEN /\ rpc' = "returned"
                     /\ rd_kind' = "content"
                     /\ rd_enc' = "utf-8"
                     /\ annotated' = IsMarkdown(rd_path)
                     /\ rd_result' = IF IsMarkdown(rd_path)
                                     THEN ProcessObsidianMarkdown(content)
                                     ELSE content
                     /\ UNCHANGED enc_i
                ELSE /\ rpc' = "fallback"      \* except UnicodeDecodeError
                     /\ enc_i' = 1
                     /\ UNCHANGED <<annotated, rd_kind, rd_enc, rd_result>>
    /\ UNCHANGED <<rd_path, rd_bytes, written, max_chars, readable>>
    /\ UNCHANGED notRead

\* Lines 94-103: one iteration of the fallback loop; any exception continues
\* with the next encoding, and the loop running out returns the sentinel.
ReadFallback ==
    /\ rpc = "fallback"
    /\ LET enc == Encodings[enc_i]
           d   == Decode(enc, rd_bytes)
       IN  /\ attempts' = Append(attempts, enc)
           /\ io_failed' = (io_failed \/ ~readable)
           /\ IF readable /\ d.ok
              THEN /\ rpc' = "returned"
                   /\ rd_kind' = "tagged"
                   /\ rd_enc' = enc
                   /\ rd_result' = Tagged(enc, Truncate(d.text, max_chars))
                   /\ UNCHANGED enc_i
              ELSE IF enc_i < Len(Encodings)
              THEN /\ enc_i' = enc_i + 1
                   /\ UNCHANGED <<rpc, rd_kind, rd_enc, rd_result>>
              ELSE /\ rpc' = "returned"
                   /\ rd_kind' = "undecodable"
                   /\ rd_result' = Undecodable(rd_path)
                   /\ UNCHANGED <<enc_i, rd_enc>>
    /\ UNCHANGED <<rd_path, rd_bytes, written, max_chars, readable, annotated>>
    /\ UNCHANGED notRead

\* Another process removes the file while the fallback loop runs.
OtherRemoves ==
    /\ rpc = "fallback"
    /\ readable
    /\ readable' = FALSE
    /\ UNCHANGED <<rd_path, rd_bytes, written, max_chars, io_failed, rpc, enc_i,
                   attempts, annotated, rd_kind, rd_enc, rd_result>>
    /\ UNCHANGED notRead

ReadNext ==
    \/ ReadUtf8
    \/ ReadFallback
    \/ OtherRemoves

(***************************************************************************)
(* FileAnalyzer.read_file_content(file_path): the reader of the local      *)
(* front-end. It has no character budget, annotates only what decoded as   *)
(* UTF-8, and the fallback loop skips an encoding on any exception.        *)
(***************************************************************************)
RECURSIVE FallbackFrom(_, _, _)
FallbackFrom(path, bytes, i) ==
    IF i > Len(Encodings) THEN Undecodable(path)
    ELSE IF Decode(Encodings[i], bytes).ok
    THEN Tagged(Encodings[i], Decode(Encodings[i], bytes).text)
    ELSE FallbackFrom(path, bytes, i + 1)

AnalyzerRead(path, bytes, can_read) ==
    IF ~can_read THEN ReadError(path)
    ELSE IF Decode("utf-8", bytes).ok
    THEN IF IsMarkdown(path)
         THEN ProcessObsidianMarkdown(Decode("utf-8", bytes).text)
         ELSE Decode("utf-8", bytes).text
    ELSE FallbackFrom(path, bytes, 1)

\* The files a manifest can name, by the number of the entry: a.md holding
\* "#a", x.d/e holding the byte E9, b.MD holding "^a".
SamplePaths ==
    << <<97, 46, 109, 100>>, <<120, 46, 100, 47, 101>>, <<98, 46, 77, 68>> >>

SampleBytes == << <<35, 97>>, <<233>>, <<94, 97>> >>

PathText(f) == SamplePaths[((f - 1) % Len(SamplePaths)) + 1]

BytesOf(f) == SampleBytes[((f - 1) % Len(SampleBytes)) + 1]

(***************************************************************************)
(* analyze_file_changes(files) and OllamaClient.generate.                  *)
(***************************************************************************)
EvidenceLimit == 10

SampleChars == 500

\* s[:n]
Take(s, n) == SubSeq(s, 1, Min(n, Len(s)))

EvidenceAll(fl) == fl

\* files[:10]
EvidencePrefix(fl) == Take(fl, EvidenceLimit)

\* "最新一か月で更新されたファイルはありません。"
NoRecentFiles ==
    <<26368, 26032, 19968, 12363, 26376, 12391, 26356, 26032, 12373, 12428,
      12383, 12501, 12449, 12452, 12523, 12399, 12354, 12426, 12414, 12379,
      12435, 12290>>

\* f"ファイル: {path}\n更新日時: {modified}\n内容サンプル:\n{content[:500]}...\n"
FileSummary(path, modified, content) ==
    <<12501, 12449, 12452, 12523, 58, 32>> \o path \o <<10>>
       \o <<26356, 26032, 26085, 26178, 58, 32>> \o modified \o <<10>>
       \o <<20869, 23481, 12469, 12531, 12503, 12523, 58, 10>>
       \o Take(content, SampleChars) \o Ellipsis \o <<10>>

\* chr(10).join(file_summary)
RECURSIVE JoinLines(_)
JoinLines(ss) ==
    IF ss = <<>> THEN <<>>
    ELSE IF Len(ss) = 1 THEN ss[1]
    ELSE ss[1] \o <<10>> \o JoinLines(Tail(ss))

\* response.json()["response"]: what the model answered, here "ok".
ResponseText == <<111, 107>>

\* f"エラーが発生しました: {str(e)}", e the exception of requests.post,
\* raise_for_status or the JSON access; str(e) is here the digit of the cause.
GenerateError(cause) ==
    <<12456, 12521, 12540, 12364, 30330, 29983, 12375, 12414, 12375, 12383, 58, 32>>
       \o <<Digit(cause)>>

ChangesIdle ==
    /\ ch_files = <<>>
    /\ ch_pc = "idle"
    /\ ch_i = 0
    /\ file_summary = <<>>
    /\ failed_reads = {}
    /\ prompt = <<>>
    /\ requests = 0
    /\ generate_failed = FALSE
    /\ analysis = <<>>

\* analyze_file_changes called on a manifest of its own.
ChangesInit ==
    /\ \E n \in 0..MaxFound :
          ch_files = [i \in 1..n |->
                        [path |-> i, modified |-> isoformat(MaxMtime), size |-> 1]]
    /\ ch_pc = "call"
    /\ ch_i = 0
    /\ file_summary = <<>>
    /\ failed_reads = {}
    /\ prompt = <<>>
    /\ requests = 0
    /\ generate_failed = FALSE
    /\ analysis = <<>>

\* Lines 108-112.
ChangesCall ==
    /\ ch_pc = "call"
    /\ IF ch_files = <<>>
       THEN /\ analysis' = NoRecentFiles
            /\ ch_pc' = "returned"
            /\ UNCHANGED <<ch_i, stages>>
       ELSE /\ ch_pc' = "loop"
            /\ ch_i' = 1
            /\ stages' = Append(stages, "extracting")
            /\ UNCHANGED analysis
    /\ file_summary' = <<>>
    /\ UNCHANGED <<ch_files, failed_reads, prompt, requests, generate_failed>>
    /\ UNCHANGED <<output, pl_pc, report, printed, saved>>
    /\ UNCHANGED scanVars
    /\ UNCHANGED notPipe

\* Lines 113-115: one iteration over files[:10]. The file may have become
\* unreadable since the scan.
ChangesRead ==
    /\ ch_pc = "loop"
    /\ \E can_read \in BOOLEAN :
          LET file_info == EvidencePrefix(ch_files)[ch_i]
              content   == AnalyzerRead(PathText(file_info.path),
                                        BytesOf(file_info.path), can_read)
          IN  /\ file_summary' =
                    Append(file_summary,
                           FileSummary(PathText(file_info.path),
                                       file_info.modified, content))
              /\ failed_reads' =
                    IF can_read THEN failed_reads ELSE failed_reads \cup {ch_i}
    /\ IF ch_i < Len(EvidencePrefix(ch_files))
       THEN ch_i' = ch_i + 1 /\ UNCHANGED ch_pc
       ELSE ch_pc' = "generate" /\ UNCHANGED ch_i
    /\ UNCHANGED <<ch_files, prompt, requests, generate_failed, analysis>>
    /\ UNCHANGED mainVars
    /\ UNCHANGED scanVars
    /\ UNCHANGED notPipe

\* Lines 117-134 and 13-27: the prompt and the request. generate catches every
\* exception (connection refused: 1, HTTP error status: 2, no "response" key:
\* 3) and returns it as text.
ChangesGenerate ==
    /\ ch_pc = "generate"
    /\ prompt' = JoinLines(file_summary)
    /\ requests' = requests + 1
    /\ stages' = Append(stages, "reporting")
    /\ \E cause \in 0..3 :
          /\ generate_failed' = (cause # 0)
          /\ analysis' = IF cause = 0 THEN ResponseText ELSE GenerateError(cause)
    /\ ch_pc' = "returned"
    /\ UNCHANGED <<ch_files, ch_i, file_summary, failed_reads>>
    /\ UNCHANGED <<output, pl_pc, report, printed, saved>>
    /\ UNCHANGED scanVars
    /\ UNCHANGED notPipe

ChangesNext ==
    \/ ChangesCall
    \/ ChangesRead
    \/ ChangesGenerate

(***************************************************************************)
(* FileAnalyzer.generate_report and main of the local front-end. The run   *)
(* starts at the call of find_recent_files.                                *)
(***************************************************************************)
\* The folder argument, "d".
FolderPath == <<100>>

\* str(e) of what find_recent_files raised: the ValueError of line 39,
\* f"フォルダが存在しません: {folder_path}", or the PermissionError of is_file(),
\* "[Errno 13]" and what follows it.
ExceptionText ==
    IF root = "missing"
    THEN <<12501, 12457, 12523, 12480, 12364, 23384, 22312, 12375, 12414, 12379,
           12435, 58, 32>> \o FolderPath
    ELSE <<91, 69, 114, 114, 110, 111, 32, 49, 51, 93>>

\* Lines 151-154: {"error": f"レポート生成中にエラーが発生しました: {str(e)}", ...}
ErrorReport(text) ==
    [error |-> <<12524, 12509, 12540, 12488, 29983, 25104, 20013, 12395, 12456,
                 12521, 12540, 12364, 30330, 29983, 12375, 12414, 12375, 12383,
                 58, 32>> \o text]

\* Lines 142-149.
NormalReport(fl, text) ==
    [folder_path |-> FolderPath, analysis_period_days |-> days,
     total_files_found |-> Len(fl), files |-> fl, analysis |-> text]

\* "error" in report
HasError(r) == "error" \in DOMAIN r

NoReport == [none |-> TRUE]

MainIdle ==
    /\ output = FALSE
    /\ pl_pc = "idle"
    /\ stages = <<>>
    /\ report = NoReport
    /\ printed = <<>>
    /\ saved = FALSE

MainInit ==
    /\ output \in BOOLEAN
    /\ pl_pc = "scanning"
    /\ stages = <<"scanning">>
    /\ report = NoReport
    /\ printed = <<>>
    /\ saved = FALSE

\* Lines 139 and 150-154 of generate_report: find_recent_files returned its
\* list, or raised and the except branch builds the error report.
PipeScanned ==
    /\ pl_pc = "scanning"
    /\ spc \in {"returned", "raised"}
    /\ IF spc = "raised"
       THEN /\ report' = ErrorReport(ExceptionText)
            /\ pl_pc' = "main"
            /\ UNCHANGED <<ch_files, ch_pc>>
       ELSE /\ ch_files' = recent_files
            /\ ch_pc' = "call"
            /\ pl_pc' = "analyzing"
            /\ UNCHANGED report
    /\ UNCHANGED <<ch_i, file_summary, failed_reads, prompt, requests,
                   generate_failed, analysis>>
    /\ UNCHANGED <<output, stages, printed, saved>>
    /\ UNCHANGED scanVars
    /\ UNCHANGED notPipe

\* Lines 140-149: analyze_file_changes returned; the report is built.
PipeReport ==
    /\ pl_pc = "analyzing"
    /\ ch_pc = "returned"
    /\ report' = NormalReport(ch_files, analysis)
    /\ pl_pc' = "main"
    /\ UNCHANGED changeVars
    /\ UNCHANGED <<output, stages, printed, saved>>
    /\ UNCHANGED scanVars
    /\ UNCHANGED notPipe

\* main.py lines 20-37: the error is printed and main returns, or the result,
\* the first files and the analysis are printed.
MainCheck ==
    /\ pl_pc = "main"
    /\ IF HasError(report)
       THEN /\ printed' = <<"error">>
            /\ pl_pc' = "failed"
       ELSE /\ printed' = <<"result", "files", "analysis">>
            /\ pl_pc' = "printed"
    /\ UNCHANGED changeVars
    /\ UNCHANGED <<output, stages, report, saved>>
    /\ UNCHANGED scanVars
    /\ UNCHANGED notPipe

\* main.py lines 39-42: open() and json.dump, in no try block: an OSError of
\* either leaves main.
MainSave ==
    /\ pl_pc = "printed"
    /\ IF ~output
       THEN /\ pl_pc' = "done"
            /\ UNCHANGED <<stages, printed, saved>>
       ELSE /\ stages' = Append(stages, "persisting")
            /\ \E written_ok \in BOOLEAN :
                  IF written_ok
                  THEN /\ saved' = TRUE
                       /\ printed' = Append(printed, "saved")
                       /\ pl_pc' = "done"
                  ELSE /\ pl_pc' = "crashed"
                       /\ UNCHANGED <<printed, saved>>
    /\ UNCHANGED changeVars
    /\ UNCHANGED <<output, report>>
    /\ UNCHANGED scanVars
    /\ UNCHANGED notPipe

\* A run of main: the scan, then the analysis, then the printing and saving.
PipeNext ==
    \/ ScanCall
    \/ ScanIsFile
    \/ ScanStatMtime
    \/ ScanStatSize
    \/ PipeScanned
    \/ ChangesCall
    \/ ChangesRead
    \/ ChangesGenerate
    \/ PipeReport
    \/ MainCheck
    \/ MainSave

(***************************************************************************)
(* The agent front-ends: main of agents_main.py and azure_agents_main.py,  *)
(* and the tool save_report. The agent is the external collaborator: it    *)
(* calls the tools it was given when and with the arguments it chooses,    *)
(* and its run returns a final text or raises.                             *)
(***************************************************************************)
\* args.output, "r", and a path of the agent's own choice, "o".
OutputPath == <<114>>

OtherPath == <<111>>

\* f"レポートを {output_path} に保存しました。"
SaveSuccess(path) ==
    <<12524, 12509, 12540, 12488, 12434, 32>> \o path
       \o <<32, 12395, 20445, 23384, 12375, 12414, 12375, 12383, 12290>>

\* f"保存エラー: {str(e)}", e the OSError of open() or write(): "[Errno 13]"
\* and what follows it.
SaveError == <<20445, 23384, 12456, 12521, 12540, 58, 32>>
                \o <<91, 69, 114, 114, 110, 111, 32, 49, 51, 93>>

AgentIdle ==
    /\ ag_key = FALSE
    /\ ag_output = FALSE
    /\ ag_pc = "idle"
    /\ save_calls = <<>>
    /\ ag_files = {}
    /\ ag_printed = <<>>

AgentInit ==
    /\ ag_key \in BOOLEAN
    /\ ag_output \in BOOLEAN
    /\ ag_pc = "start"
    /\ save_calls = <<>>
    /\ ag_files = {}
    /\ ag_printed = <<>>

\* agents_main.py line 192 and FileAnalyzerAgent.__init__: without the API key
\* the constructor raises ValueError, which main reports (lines 209-211).
AgentConstruct ==
    /\ ag_pc = "start"
    /\ IF ag_key
       THEN /\ ag_pc' = "running"
            /\ UNCHANGED ag_printed
       ELSE /\ ag_pc' = "failed"
            /\ ag_printed' = <<"config_error">>
    /\ UNCHANGED <<ag_key, ag_output, save_calls, ag_files>>
    /\ UNCHANGED notAgent

\* save_report(report_data, output_path), called by the agent during its run.
SaveReport ==
    /\ ag_pc = "running"
    /\ Len(save_calls) < MaxToolCalls
    /\ \E path \in {OutputPath, OtherPath}, can_write \in BOOLEAN :
          IF can_write
          THEN /\ ag_files' = ag_files \cup {path}
               /\ save_calls' = Append(save_calls,
                                       [path |-> path, result |-> SaveSuccess(path)])
          ELSE /\ save_calls' = Append(save_calls,
                                       [path |-> path, result |-> SaveError])
               /\ UNCHANGED ag_files
    /\ UNCHANGED <<ag_key, ag_output, ag_pc, ag_printed>>
    /\ UNCHANGED notAgent

\* agents_main.py lines 195-207: analyze_folder_sync returned the final text,
\* which is printed; then the confirmation, when args.output is set.
AgentReturns ==
    /\ ag_pc = "running"
    /\ ag_printed' = IF ag_output THEN <<"header", "result", "saved">>
                     ELSE <<"header", "result">>
    /\ ag_pc' = "done"
    /\ UNCHANGED <<ag_key, ag_output, save_calls, ag_files>>
    /\ UNCHANGED notAgent

\* agents_main.py lines 212-219: the run raised (network, rate limit, ...).
AgentRaises ==
    /\ ag_pc = "running"
    /\ ag_printed' = <<"error">>
    /\ ag_pc' = "failed"
    /\ UNCHANGED <<ag_key, ag_output, save_calls, ag_files>>
    /\ UNCHANGED notAgent

AgentNext ==
    \/ AgentConstruct
    \/ SaveReport
    \/ AgentReturns
    \/ AgentRaises

(***************************************************************************)
(* The specifications: one per operation, the other operations at rest.    *)
(***************************************************************************)
ScanIdle ==
    /\ root = "missing"
    /\ fs = [f \in 1..NFiles |-> FileEntry("dir", 0, 0)]
    /\ touched = {}
    /\ versions = [f \in 1..NFiles |-> {<<0, 0>>}]
    /\ raced = FALSE
    /\ clock = 0
    /\ days = 0
    /\ call_time = 0
    /\ cutoff_date = 0
    /\ spc = "idle"
    /\ idx = 0
    /\ modified_time = 0
    /\ recent_files = <<>>

PipeIdle == ChangesIdle /\ MainIdle

InitScan == ScanInit /\ TypesIdle /\ AnnIdle /\ ReadIdle /\ PipeIdle /\ AgentIdle

InitTypes == TypesInit /\ ScanIdle /\ AnnIdle /\ ReadIdle /\ PipeIdle /\ AgentIdle

InitAnnotate == AnnInit /\ ScanIdle /\ TypesIdle /\ ReadIdle /\ PipeIdle /\ AgentIdle

InitRead == ReadInit /\ ScanIdle /\ TypesIdle /\ AnnIdle /\ PipeIdle /\ AgentIdle

InitChanges ==
    /\ ChangesInit /\ MainIdle /\ ScanIdle /\ TypesIdle /\ AnnIdle /\ ReadIdle
    /\ AgentIdle

\* A run of main on a folder whose entries are unreadable, old or recent, with
\* a window of one day.
InitPipe ==
    /\ ScanInit
    /\ days = 1
    /\ \A f \in 1..NFiles :
          fs[f].kind \in {"denied", "file"} /\ fs[f].mtime \in {0, MaxMtime}
    /\ ChangesIdle /\ MainInit
    /\ TypesIdle /\ AnnIdle /\ ReadIdle /\ AgentIdle

InitAgent ==
    /\ AgentInit
    /\ ScanIdle /\ TypesIdle /\ AnnIdle /\ ReadIdle /\ PipeIdle

SpecScan == InitScan /\ [][ScanNext]_vars

SpecTypes == InitTypes /\ [][TypesNext]_vars

SpecAnnotate == InitAnnotate /\ [][AnnNext]_vars

SpecRead == InitRead /\ [][ReadNext]_vars

SpecChanges == InitChanges /\ [][ChangesNext]_vars

SpecPipe == InitPipe /\ [][PipeNext]_vars

SpecAgent == InitAgent /\ [][AgentNext]_vars

(***************************************************************************)
(* Claims about find_recent_files.                                         *)
(***************************************************************************)
\* What a reader of the manifest gets back from a "modified" string.
fromisoformat(s) ==
    ((s[1] - 48) * 10 + (s[2] - 48) - 8) * 2 + (IF Len(s) > 2 THEN 1 ELSE 0)

Listed(f) == \E i \in 1..Len(recent_files) : recent_files[i].path = f

\* An entry that is a regular file with readable metadata during the whole scan.
Steady(f) == f \in Walk /\ fs[f].kind = "file" /\ f \notin touched

\* C1: a returned manifest holds a regular file under the root exactly when its
\* modification time is strictly after now - days, now being the time of the
\* call; a file modified at the cutoff or before it is never listed.
C1_RecentIffAfterCutoff ==
    spc = "returned" =>
        LET cutoff == call_time - timedelta(days)
        IN  /\ \A i \in 1..Len(recent_files) :
                  /\ recent_files[i].path \in Walk
                  /\ fromisoformat(recent_files[i].modified) > cutoff
            /\ \A f \in 1..NFiles :
                  Steady(f) => (Listed(f) <=> fs[f].mtime > cutoff)
            /\ \A f \in 1..NFiles : fs[f].kind = "dir" => ~Listed(f)

C1_Witness ==
    /\ spc = "returned"
    /\ clock > call_time
    /\ \E f, g \in 1..NFiles :
          /\ Steady(f) /\ Steady(g)
          /\ fs[f].mtime = call_time - timedelta(days) /\ ~Listed(f)
          /\ fs[g].mtime = call_time - timedelta(days) + 1 /\ Listed(g)

\* C2: a returned manifest is ordered by modification time, most recent first;
\* records with the same modification time are in the order of the walk; and
\* sorting the manifest again changes nothing.
C2_SortedStableIdempotent ==
    spc = "returned" =>
        /\ \A i, j \in 1..Len(recent_files) :
              i < j =>
                 /\ fromisoformat(recent_files[i].modified)
                        >= fromisoformat(recent_files[j].modified)
                 /\ recent_files[i].modified = recent_files[j].modified
                        => recent_files[i].path < recent_files[j].path
        /\ SortByModifiedDesc(recent_files) = recent_files

C2_Witness ==
    /\ spc = "returned"
    /\ Len(recent_files) = 3
    /\ recent_files[1].modified # recent_files[2].modified
    /\ recent_files[2].modified = recent_files[3].modified
    /\ recent_files[1].path > recent_files[2].path
    /\ Len(recent_files[1].modified) # Len(recent_files[2].modified)

\* C3: a call whose root does not exist, or exists and is not a directory, ends
\* in an error and returns no manifest.
C3_NotADirectoryRaises ==
    (spc \in {"returned", "raised"} /\ root # "dir") => spc = "raised"

\* The half of C3 the code does implement: a missing root raises.
C3_MissingRootRaises ==
    (spc \in {"returned", "raised"} /\ root = "missing") => spc = "raised"

\* C4: a file whose metadata cannot be read is left out, no error leaves the
\* call, and every other recent file is still returned.
C4_MetadataFailureSkipped ==
    (spc \in {"returned", "raised"} /\ root = "dir") =>
        /\ spc = "returned"
        /\ \A f \in 1..NFiles :
              /\ fs[f].kind \in {"denied", "gone"} => ~Listed(f)
              /\ (Steady(f) /\ fs[f].mtime > call_time - timedelta(days))
                    => Listed(f)

\* What the code does guarantee: a failure of either stat() inside the try is
\* swallowed, so a scan that ends in an error ended at the root check or at
\* is_file().
C4_OnlyIsFileRaises ==
    spc = "raised" =>
        \/ root = "missing"
        \/ root = "dir" /\ fs[idx].kind = "denied"

(***************************************************************************)
(* Claims about analyze_file_types.                                        *)
(***************************************************************************)
RECURSIVE SumCount(_, _)
SumCount(ts, S) ==
    IF S = {} THEN 0
    ELSE LET e == CHOOSE x \in S : TRUE IN ts[e].count + SumCount(ts, S \ {e})

RECURSIVE SumTotalSize(_, _)
SumTotalSize(ts, S) ==
    IF S = {} THEN 0
    ELSE LET e == CHOOSE x \in S : TRUE
         IN  ts[e].total_size + SumTotalSize(ts, S \ {e})

RECURSIVE SumSizes(_)
SumSizes(fl) ==
    IF fl = <<>> THEN 0 ELSE fl[1].size + SumSizes(Tail(fl))

\* C5: for every manifest, the empty one included, the per-extension counts add
\* up to total_files, which is the number of records; the per-extension sizes add
\* up to total_size, which is the sum of the records' sizes; every count is >= 1.
C5_TotalsAgree ==
    tpc = "returned" =>
        /\ SumCount(type_stats, DOMAIN type_stats) = total_files
        /\ total_files = Len(files)
        /\ SumTotalSize(type_stats, DOMAIN type_stats) = total_size
        /\ total_size = SumSizes(files)
        /\ \A e \in DOMAIN type_stats : type_stats[e].count >= 1

C5_Witness ==
    /\ tpc = "returned"
    /\ Len(files) = 3
    /\ DotMd \in DOMAIN type_stats /\ type_stats[DotMd].count = 2
    /\ NoExtension \in DOMAIN type_stats
    /\ type_stats[DotMd].total_size = 3
    /\ total_size = 5

C5_WitnessEmpty ==
    tpc = "returned" /\ files = <<>> /\ total_files = 0 /\ total_size = 0

(***************************************************************************)
(* Claims about the annotation.                                            *)
(***************************************************************************)
MarkerOf(r) ==
    CASE r = "link"  -> LinkMarker
      [] r = "tag"   -> TagMarker
      [] r = "block" -> BlockMarker

StartsAt(s, i, m) ==
    i + Len(m) - 1 <= Len(s) /\ SubSeq(s, i, i + Len(m) - 1) = m

\* s with every occurrence of m deleted.
RECURSIVE RemoveAll(_, _, _)
RemoveAll(s, i, m) ==
    IF i > Len(s) THEN <<>>
    ELSE IF StartsAt(s, i, m) THEN RemoveAll(s, i + Len(m), m)
    ELSE <<s[i]>> \o RemoveAll(s, i + 1, m)

CountOf(s, m) == Cardinality({i \in 1..Len(s) : StartsAt(s, i, m)})

\* C6: for each rule, the output is the input with the rule's marker inserted
\* after each matched token: deleting the markers gives the input back.
C6_MarkersOnlyInserted ==
    apc = "ruled" => RemoveAll(ann_out, 1, MarkerOf(ann_rule)) = ann_in

\* The part of C6 that holds: the cross-link and the tag rule only insert.
C6_LinkAndTagOnlyInsert ==
    (apc = "ruled" /\ ann_rule # "block") =>
        RemoveAll(ann_out, 1, MarkerOf(ann_rule)) = ann_in

\* C7: a second application adds a second marker after every token, for each of
\* the three rules.
C7_SecondPassDoubles ==
    apc = "twice" =>
        \A r \in {"link", "tag", "block"} :
            CountOf(ann_out2, MarkerOf(r)) = 2 * CountOf(ann_out, MarkerOf(r))

\* The part of C7 that holds: cross-link and tag markers double.
C7_LinkAndTagDouble ==
    apc = "twice" =>
        \A r \in {"link", "tag"} :
            CountOf(ann_out2, MarkerOf(r)) = 2 * CountOf(ann_out, MarkerOf(r))

(***************************************************************************)
(* Claims about read_file_content.                                         *)
(***************************************************************************)
IsPrefix(p, t) == Len(p) <= Len(t) /\ SubSeq(t, 1, Len(p)) = p

IsSuffix(p, t) == Len(p) <= Len(t) /\ SubSeq(t, Len(t) - Len(p) + 1, Len(t)) = p

\* C8 as claimed: for every file that was decoded, by UTF-8 or by a fallback, the
\* returned text is never longer than max_chars plus the length of "...".
C8_NeverLongerThanBudget ==
    (rpc = "returned" /\ rd_kind \in {"content", "tagged"}) =>
        Len(rd_result) <= max_chars + Len(Ellipsis)

\* C8 as amended: the decoded content is cut to max_chars characters plus "..."
\* before anything is added to it. A file that is not .md and decodes as UTF-8
\* returns at most max_chars + 3 characters; a .md file decoded as UTF-8 returns
\* at most that plus what the annotation adds (each marker's length, and one
\* more character per block-reference marker); a fallback-decoded file returns
\* at most that plus the "[<encoding>エンコーディング] " prefix.
C8_CutBeforeMarkersAndTag ==
    rpc = "returned" =>
        LET budget == max_chars + Len(Ellipsis)
        IN  /\ (rd_kind = "content" /\ ~IsMarkdown(rd_path)) =>
                  Len(rd_result) <= budget
            /\ (rd_kind = "content" /\ IsMarkdown(rd_path)) =>
                  Len(rd_result) <= budget
                      + CountOf(rd_result, LinkMarker) * Len(LinkMarker)
                      + CountOf(rd_result, TagMarker) * Len(TagMarker)
                      + CountOf(rd_result, BlockMarker) * (Len(BlockMarker) + 1)
            /\ rd_kind = "tagged" =>
                  Len(rd_result) <= budget + 1 + Len(EncodingName(rd_enc)) + 10

C8_Witness ==
    /\ rpc = "returned"
    /\ rd_kind = "content"
    /\ IsMarkdown(rd_path)
    /\ Len(rd_bytes) > max_chars
    /\ CountOf(rd_result, TagMarker) = 1
    /\ IsSuffix(Ellipsis, rd_result)
    /\ Len(rd_result) = max_chars + Len(Ellipsis) + Len(TagMarker)

\* C9: the annotation is applied to the returned text exactly when the extension
\* is .md in any letter case, whichever encoding decoded the file.
C9_AnnotatedIffMarkdown ==
    (rpc = "returned" /\ rd_kind \in {"content", "tagged"}) =>
        (annotated <=> IsMarkdown(rd_path))

\* The part of C9 the code implements: for a file that decodes as UTF-8.
C9_Utf8AnnotatedIffMarkdown ==
    (rpc = "returned" /\ rd_kind = "content") =>
        /\ annotated <=> IsMarkdown(rd_path)
        /\ rd_result =
              IF Lower(Suffix(rd_path)) = <<46, 109, 100>>
              THEN ProcessObsidianMarkdown(Truncate(Decode("utf-8", rd_bytes).text,
                                                    max_chars))
              ELSE Truncate(Decode("utf-8", rd_bytes).text, max_chars)

\* C10: UTF-8 is tried first; shift_jis, cp932, latin1 and utf-16 are tried, in
\* this order, only after UTF-8 failed to decode; the result is the text decoded
\* by the first encoding that decodes, tagged with its name, and no encoding is
\* tried after it.
C10_FirstEncodingThatDecodes ==
    LET order == <<"utf-8", "shift_jis", "cp932", "latin1", "utf-16">>
        k     == Len(attempts)
    IN  /\ k <= Len(order)
        /\ \A i \in 1..k : attempts[i] = order[i]
        /\ k > 1 => ~Decode("utf-8", rd_bytes).ok
        /\ rd_kind = "content" =>
              /\ attempts = <<"utf-8">>
              /\ Decode("utf-8", rd_bytes).ok
              /\ rd_enc = "utf-8"
        /\ rd_kind = "tagged" =>
              /\ k > 1
              /\ rd_enc = attempts[k]
              /\ Decode(rd_enc, rd_bytes).ok
              /\ \A i \in 1..(k - 1) : ~Decode(attempts[i], rd_bytes).ok
              /\ IsPrefix(<<91>> \o EncodingName(rd_enc) \o <<12456>>, rd_result)
              /\ IsSuffix(Truncate(Decode(rd_enc, rd_bytes).text, max_chars),
                          rd_result)

C10_Witness ==
    /\ rpc = "returned"
    /\ rd_kind = "tagged"
    /\ rd_enc = "latin1"
    /\ attempts = <<"utf-8", "shift_jis", "cp932", "latin1">>
    /\ Len(rd_bytes) > max_chars

\* C11: no file state makes the call raise; when every encoding fails to decode
\* the result is the "undecodable" sentinel; and when an open() or a read() of
\* the call fails, in the UTF-8 attempt or in any fallback attempt, the result is
\* the read-error string.
C11_IoFailureGivesReadError ==
    rpc = "returned" =>
        /\ rd_kind \in {"content", "tagged", "undecodable", "error"}
        /\ io_failed => (rd_kind = "error" /\ rd_result = ReadError(rd_path))
        /\ rd_kind = "undecodable" =>
              \A i \in 1..Len(Encodings) : ~Decode(Encodings[i], rd_bytes).ok

\* The part of C11 the code implements: a failure of the first open() gives the
\* read-error string.
C11_FirstOpenFailureGivesReadError ==
    (rpc = "returned" /\ io_failed /\ attempts = <<"utf-8">>) =>
        (rd_kind = "error" /\ rd_result = ReadError(rd_path))

\* C12, for the encoding it singles out: a file that is not valid UTF-8 and was
\* written in latin1 is decoded by the fallback and tagged latin1, not utf-8 and
\* not another encoding of the list.
C12_ReportsWrittenEncoding ==
    (rpc = "returned" /\ ~io_failed /\ written = "latin1"
        /\ ~Decode("utf-8", rd_bytes).ok) =>
        (rd_kind = "tagged" /\ rd_enc = written)

\* What the code guarantees about the tag: the first encoding of the list that
\* decodes the bytes, so latin1 only for bytes shift_jis and cp932 both reject.
C12_Latin1OnlyWhenJapaneseCodecsReject ==
    (rpc = "returned" /\ rd_kind = "tagged" /\ rd_enc = "latin1") =>
        (~Decode("shift_jis", rd_bytes).ok /\ ~Decode("cp932", rd_bytes).ok)

\* C19: while no open() or read() of the call has failed, the fallback loop
\* never goes past latin1: utf-16 is never attempted and the "undecodable"
\* sentinel is never returned.
C19_ReadableEndsAtLatin1 ==
    ~io_failed =>
        /\ rd_kind # "undecodable"
        /\ \A i \in 1..Len(attempts) : attempts[i] # "utf-16"
        /\ rpc = "fallback" => Encodings[enc_i] # "utf-16"

C19_Witness ==
    /\ rpc = "returned"
    /\ ~io_failed
    /\ rd_bytes = <<233, 128, 233>>
    /\ written = "latin1"
    /\ attempts[Len(attempts)] = "latin1"
    /\ rd_result = Tagged("latin1", Truncate(rd_bytes, max_chars))

\* The case C19 excepts: the file goes away during the fallback attempts, utf-16
\* is attempted and the sentinel is returned.
C19_WitnessIoFailure ==
    /\ rpc = "returned"
    /\ io_failed
    /\ attempts[Len(attempts)] = "utf-16"
    /\ rd_kind = "undecodable"

(***************************************************************************)
(* Claims about the pipeline of the local front-end.                       *)
(***************************************************************************)
Ended == pl_pc \in {"done", "failed", "crashed"}

\* C13: a run that reaches Done went through scanning, aggregating, extracting
\* and reporting, in this order; a run on a missing root goes from scanning to
\* the failed outcome with no aggregation, no extraction, no request to the
\* collaborator and nothing saved.
C13_FourStagesInOrder ==
    /\ pl_pc = "done" =>
          /\ Len(stages) >= 4
          /\ SubSeq(stages, 1, 4)
                = <<"scanning", "aggregating", "extracting", "reporting">>
    /\ (Ended /\ root = "missing") =>
          /\ pl_pc = "failed"
          /\ stages = <<"scanning">>
          /\ tpc = "idle" /\ file_summary = <<>> /\ requests = 0 /\ ~saved

\* The part of C13 the code implements: the missing root.
C13_MissingRootFailsAtScanning ==
    (Ended /\ root = "missing") =>
        /\ pl_pc = "failed"
        /\ stages = <<"scanning">>
        /\ HasError(report)
        /\ tpc = "idle" /\ file_summary = <<>> /\ requests = 0 /\ ~saved

\* C14: when the request to the collaborator failed, generate_report returns a
\* report with the error key, never one whose analysis is the failure, and the
\* run ends failed.
C14_CollaboratorFailureFails ==
    (generate_failed /\ report # NoReport) =>
        /\ HasError(report)
        /\ pl_pc \in {"main", "failed"}

\* What the code does with a failed request: the report is a normal one and
\* its analysis is the text of the failure.
C14_FailureBecomesAnalysis ==
    (generate_failed /\ report # NoReport) =>
        /\ ~HasError(report)
        /\ \E cause \in 1..3 : report.analysis = GenerateError(cause)

\* C15: a failed write of the report raises nothing to the caller of main: the
\* run still ends normally with the analysis printed, and the saved
\* confirmation is printed only when the write succeeded.
C15_WriteFailureNotRaised ==
    /\ pl_pc # "crashed"
    /\ (\E i \in 1..Len(printed) : printed[i] = "saved") => saved

\* The part of C15 the code implements: the confirmation follows a write that
\* succeeded, and the analysis was printed before the write was tried.
C15_ConfirmationOnlyAfterWrite ==
    /\ (\E i \in 1..Len(printed) : printed[i] = "saved") => saved
    /\ pl_pc = "crashed" =>
          (output /\ ~saved /\ printed = <<"result", "files", "analysis">>)

\* C18: the evidence set of a manifest of length L has min(10, L) entries; entry
\* i is the extraction of record i of the manifest; a file that could not be
\* read contributes the read-error placeholder, the files after it are still
\* extracted, and the call goes on to the collaborator.
C18_EvidenceIsManifestPrefix ==
    /\ Len(file_summary) <= EvidenceLimit
    /\ ch_pc \in {"generate", "returned"} =>
          /\ Len(file_summary) = Min(EvidenceLimit, Len(ch_files))
          /\ \A i \in 1..Len(file_summary) :
                LET path == PathText(ch_files[i].path)
                IN  file_summary[i] =
                       FileSummary(path, ch_files[i].modified,
                                   IF i \in failed_reads THEN ReadError(path)
                                   ELSE AnalyzerRead(path, BytesOf(ch_files[i].path),
                                                     TRUE))
    /\ (ch_pc = "returned" /\ ch_files # <<>>) =>
          (requests = 1 /\ prompt = JoinLines(file_summary))

C18_Witness ==
    /\ ch_pc = "returned"
    /\ Len(ch_files) = EvidenceLimit + 2
    /\ Len(file_summary) = EvidenceLimit
    /\ failed_reads = {3, 4, EvidenceLimit}
    /\ requests = 1

(***************************************************************************)
(* Claims about the order of cutting and annotating, the order of the      *)
(* rules, and the records of a scan that races with a writer.              *)
(***************************************************************************)
\* The number of tokens of a rule in s, found as re.sub finds them, that end at
\* or before position n.
RECURSIVE TokensWithin(_, _, _, _, _)
TokensWithin(s, i, lead, class, n) ==
    IF i > Len(s) THEN 0
    ELSE LET e == RunMatchEnd(s, i, lead, class)
         IN  IF e = 0 THEN TokensWithin(s, i + 1, lead, class, n)
             ELSE (IF e <= n THEN 1 ELSE 0) + TokensWithin(s, e + 1, lead, class, n)

\* C16: the text of a .md file is cut to max_chars before it is annotated, so
\* the returned text has a marker for each token that lies wholly before the
\* cut and none for a token that straddles the cut or lies after it.
C16_SplitTokenNotAnnotated ==
    (rpc = "returned" /\ rd_kind = "content" /\ IsMarkdown(rd_path)) =>
        LET text == Decode("utf-8", rd_bytes).text
            n    == Min(max_chars, Len(text))
        IN  /\ CountOf(rd_result, TagMarker) = TokensWithin(text, 1, 35, TagClass, n)
            /\ CountOf(rd_result, BlockMarker)
                  = TokensWithin(text, 1, 94, BlockClass, n)

\* What the code guarantees: the markers are those of the tokens of the cut
\* text, in which the head of a tag or block anchor that straddled the cut is
\* a token of its own.
C16_MarkersOfTheCutText ==
    (rpc = "returned" /\ rd_kind = "content" /\ IsMarkdown(rd_path)) =>
        LET cut == Truncate(Decode("utf-8", rd_bytes).text, max_chars)
        IN  /\ CountOf(rd_result, TagMarker)
                  = TokensWithin(cut, 1, 35, TagClass, Len(cut))
            /\ CountOf(rd_result, BlockMarker)
                  = TokensWithin(cut, 1, 94, BlockClass, Len(cut))

C20_RecordIsOneVersion ==
    spc = "returned" =>
        \A i \in 1..Len(recent_files) :
            <<fromisoformat(recent_files[i].modified), recent_files[i].size>>
                \in versions[recent_files[i].path]

\* What the code guarantees: the record of a file nobody touched during the scan
\* is the file's state.
C20_UntouchedRecordIsCurrent ==
    spc = "returned" =>
        \A i \in 1..Len(recent_files) :
            LET f == recent_files[i].path
            IN  f \notin touched =>
                   /\ fromisoformat(recent_files[i].modified) = fs[f].mtime
                   /\ recent_files[i].size = fs[f].size

(***************************************************************************)
(* Claims about the agent front-ends.                                      *)
(***************************************************************************)
SavedPrinted == \E i \in 1..Len(ag_printed) : ag_printed[i] = "saved"

\* C21: main prints that the report was saved to the output path only in a run
\* in which save_report was called on that path and returned its success
\* string.
C21_SavedOnlyAfterSuccessfulSave ==
    SavedPrinted =>
        \E i \in 1..Len(save_calls) :
            /\ save_calls[i].path = OutputPath
            /\ save_calls[i].result = SaveSuccess(OutputPath)

\* What the code guarantees: the confirmation is printed exactly when the run
\* returned and args.output is set, whatever save_report did.
C21_SavedPrintedIffOutputSet ==
    /\ ag_pc = "done" => (SavedPrinted <=> ag_output)
    /\ ag_pc # "done" => ~SavedPrinted

====
